---- MODULE Spec2Model ----
(***************************************************************************)
(* Model of data_cleaning.py: a script that loads assessments.csv, cleans  *)
(* the table step by step and writes cleaned_assessments.csv and README.md.*)
(* A file is a header and rows of text fields; a DataFrame is a list of    *)
(* columns and rows of typed cells, each row carrying its index label.     *)
(* Strings are sequences of one-character strings, so that stripping and   *)
(* number parsing are computed character by character.                     *)
(***************************************************************************)
EXTENDS Integers, Sequences, FiniteSets, TLC

VARIABLES
    pc,            \* the statement of the script that runs next
    assessments,   \* the file assessments.csv
    df,            \* the DataFrame df (lines 5-18)
    df_cleaned,    \* the DataFrame df_cleaned (lines 34-80)
    cleaned_csv,   \* the file cleaned_assessments.csv
    readme,        \* the file README.md
    err            \* the exception that ended the run, "" when none

vars == <<pc, assessments, df, df_cleaned, cleaned_csv, readme, err>>

\* ------------------------------------------------------------ bounds
MaxRows == 2

\* ------------------------------------------------------------ values
Range(s) == {s[i] : i \in 1..Len(s)}

\* The header the script expects (the column names of lines 45 and 60-65).
AllColumns ==
    <<"code_module", "code_presentation", "id_assessment",
      "assessment_type", "date", "weight">>

\* The columns the text-standardization loop iterates over (line 45).
TextColumns == <<"code_module", "code_presentation", "assessment_type">>

\* Typed cells of a DataFrame: a number, a string, or NaN.
Num(n) == [k |-> "num", s |-> <<>>, n |-> n]
Str(s) == [k |-> "str", s |-> s, n |-> 0]
NaN == [k |-> "nan", s |-> <<>>, n |-> 0]

\* A name not bound to a DataFrame yet.
NoFrame == [columns |-> <<>>, dtypes |-> <<>>, rows |-> <<>>]

\* ------------------------------------------------------------ strings
IsSpace(c) == c \in {" ", "\t", "\n"}

Digits == <<"0", "1", "2", "3", "4", "5", "6", "7", "8", "9">>

IsDigit(c) == \E d \in 1..Len(Digits) : Digits[d] = c

DigitValue(c) == (CHOOSE d \in 1..Len(Digits) : Digits[d] = c) - 1

RECURSIVE LStrip(_)
LStrip(s) ==
    IF s = <<>> THEN s
    ELSE IF IsSpace(Head(s)) THEN LStrip(Tail(s)) ELSE s

RECURSIVE RStrip(_)
RStrip(s) ==
    IF s = <<>> THEN s
    ELSE IF IsSpace(s[Len(s)]) THEN RStrip(SubSeq(s, 1, Len(s) - 1)) ELSE s

\* str.strip() with no argument: both ends, all whitespace.
Strip(s) == RStrip(LStrip(s))

RECURSIVE DecimalValue(_)
DecimalValue(s) ==
    IF s = <<>> THEN 0
    ELSE 10 * DecimalValue(SubSeq(s, 1, Len(s) - 1)) + DigitValue(s[Len(s)])

\* The text of an integer: a non-empty run of digits.
IsIntText(t) == t # <<>> /\ \A i \in 1..Len(t) : IsDigit(t[i])

\* The text of a float with a zero fraction ("1.0", "1."); the model's numbers
\* are whole, other fractions are outside its alphabet.
IsFloatText(t) ==
    \E p \in 1..Len(t) :
        /\ t[p] = "."
        /\ IsIntText(SubSeq(t, 1, p - 1))
        /\ \A i \in (p + 1)..Len(t) : t[i] = "0"

\* The numeric converters skip blanks at both ends of the text.
IsInteger(s) == IsIntText(Strip(s))

IsNumeric(s) == IsIntText(Strip(s)) \/ IsFloatText(Strip(s))

NumericValue(s) ==
    LET t == Strip(s)
        p == IF IsIntText(t) THEN Len(t) + 1 ELSE CHOOSE q \in 1..Len(t) : t[q] = "."
    IN  DecimalValue(SubSeq(t, 1, p - 1))

RECURSIVE FormatNumber(_)
FormatNumber(n) ==
    IF n < 10 THEN <<Digits[n + 1]>>
    ELSE FormatNumber(n \div 10) \o <<Digits[(n % 10) + 1]>>

\* ------------------------------------------------------------ pandas
ColumnIndex(header, col) == CHOOSE j \in 1..Len(header) : header[j] = col

FieldsOf(file, j) == {file.rows[i][j] : i \in 1..Len(file.rows)}

\* The dtype read_csv infers for column j: int64 when every field is an
\* integer, float64 when every field is a number or empty, object otherwise
\* (and for a table without rows).
InferDtype(file, j) ==
    IF file.rows = <<>> THEN "object"
    ELSE IF \A f \in FieldsOf(file, j) : IsInteger(f) THEN "int64"
    ELSE IF \A f \in FieldsOf(file, j) : f = <<>> \/ IsNumeric(f) THEN "float64"
    ELSE "object"

\* An empty field is read as NaN; the other fields of a numeric column as
\* numbers, those of an object column as the string itself.
ParseField(f, dtype) ==
    IF f = <<>> THEN NaN
    ELSE IF dtype = "object" THEN Str(f)
    ELSE Num(NumericValue(f))

\* pd.read_csv: rows are labelled 0, 1, 2, ... (the default index).
read_csv(file) ==
    [columns |-> file.header,
     dtypes  |-> [c \in Range(file.header) |->
                    InferDtype(file, ColumnIndex(file.header, c))],
     rows    |-> [i \in 1..Len(file.rows) |->
                    [idx   |-> i - 1,
                     cells |-> [c \in Range(file.header) |->
                        LET j == ColumnIndex(file.header, c)
                        IN  ParseField(file.rows[i][j], InferDtype(file, j))]]]]

\* frame[col] raises KeyError when the frame has no such column.
KeyError(frame, col) == col \notin Range(frame.columns)

\* frame[col]: the values of a column, row by row.
Column(frame, col) == [i \in 1..Len(frame.rows) |-> frame.rows[i].cells[col]]

\* frame[col] = values, with the column's new dtype; the other columns, the
\* row labels and the column order are kept.
SetColumn(frame, col, values, dtype) ==
    [columns |-> frame.columns,
     dtypes  |-> [c \in DOMAIN frame.dtypes |->
                    IF c = col THEN dtype ELSE frame.dtypes[c]],
     rows    |-> [i \in 1..Len(frame.rows) |->
                    [idx   |-> frame.rows[i].idx,
                     cells |-> [c \in DOMAIN frame.rows[i].cells |->
                        IF c = col THEN values[i] ELSE frame.rows[i].cells[c]]]]]

ColumnCells(frame, col) == Range(Column(frame, col))

\* Series.replace('', np.nan), line 15.
ReplaceEmptyCell(cell) == IF cell = Str(<<>>) THEN NaN ELSE cell

ReplaceEmpty(frame, col) ==
    SetColumn(frame, col,
              [i \in 1..Len(frame.rows) |-> ReplaceEmptyCell(Column(frame, col)[i])],
              frame.dtypes[col])

\* Variant: errors='ignore', the value is left as it is.
ToNumericIgnore(cell) == cell

\* pd.to_numeric(..., errors='coerce') on one value: a number stays, a
\* string is parsed, what cannot be parsed becomes NaN.
ToNumericCell(cell) ==
    IF cell.k = "str"
    THEN IF IsNumeric(cell.s) THEN Num(NumericValue(cell.s)) ELSE NaN
    ELSE cell

\* The dtype of the converted column: a numeric column keeps its dtype; an
\* object column becomes int64 when every value is an integer, else float64.
NumericDtype(frame, col) ==
    IF frame.dtypes[col] # "object" THEN frame.dtypes[col]
    ELSE IF \A cell \in ColumnCells(frame, col) :
                cell.k = "num" \/ (cell.k = "str" /\ IsInteger(cell.s))
         THEN "int64"
         ELSE "float64"

to_numeric(frame, col) ==
    SetColumn(frame, col,
              [i \in 1..Len(frame.rows) |-> ToNumericCell(Column(frame, col)[i])],
              NumericDtype(frame, col))

\* Variant: keep='last'.
RECURSIVE KeepLast(_, _)
KeepLast(rows, kept) ==
    IF rows = <<>> THEN kept
    ELSE IF \E j \in 2..Len(rows) : rows[j].cells = Head(rows).cells
         THEN KeepLast(Tail(rows), kept)
         ELSE KeepLast(Tail(rows), Append(kept, Head(rows)))

\* Variant: keep=False, every row that has a copy is dropped.
DropAllDuplicated(frame) ==
    [columns |-> frame.columns, dtypes |-> frame.dtypes,
     rows |-> SelectSeq(frame.rows,
        LAMBDA r : Cardinality({i \in 1..Len(frame.rows) :
                                  frame.rows[i].cells = r.cells}) = 1)]

\* Variant: keep='last'.
DropDuplicatesKeepLast(frame) ==
    [columns |-> frame.columns, dtypes |-> frame.dtypes,
     rows |-> KeepLast(frame.rows, <<>>)]

\* DataFrame.drop_duplicates(): keep='first' over all columns, the rows in
\* their order and with their labels; NaN counts as equal to NaN.
RECURSIVE KeepFirst(_, _)
KeepFirst(rows, kept) ==
    IF rows = <<>> THEN kept
    ELSE IF \E j \in 1..Len(kept) : kept[j].cells = Head(rows).cells
         THEN KeepFirst(Tail(rows), kept)
         ELSE KeepFirst(Tail(rows), Append(kept, Head(rows)))

drop_duplicates(frame) ==
    [columns |-> frame.columns, dtypes |-> frame.dtypes,
     rows |-> KeepFirst(frame.rows, <<>>)]

\* Series.str raises AttributeError unless the column is of dtype object.
StrAccessorFails(frame, col) == frame.dtypes[col] # "object"

\* Variant: .str.lstrip(), the left end only.
LStripCell(cell) == IF cell.k = "str" THEN Str(LStrip(cell.s)) ELSE cell

\* Series.str.strip(): strings are stripped, NaN stays NaN.
StripCell(cell) == IF cell.k = "str" THEN Str(Strip(cell.s)) ELSE cell

\* The loop of lines 45-48 over the columns `cols`: an absent column is
\* skipped, a present one is stripped.
RECURSIVE Standardize(_, _)
Standardize(frame, cols) ==
    IF cols = <<>> THEN frame
    ELSE IF Head(cols) \in Range(frame.columns)
         THEN Standardize(
                SetColumn(frame, Head(cols),
                          [i \in 1..Len(frame.rows) |->
                                StripCell(Column(frame, Head(cols))[i])],
                          "object"),
                Tail(cols))
         ELSE Standardize(frame, Tail(cols))

\* Variant: the loop without the guard of line 46 raises on an absent column too.
StandardizeFailsUnguarded(frame, cols) ==
    \E i \in 1..Len(cols) :
        \/ cols[i] \notin Range(frame.columns)
        \/ StrAccessorFails(frame, cols[i])

\* The loop raises at the first present column that has no .str accessor.
StandardizeFails(frame, cols) ==
    \E i \in 1..Len(cols) :
        /\ cols[i] \in Range(frame.columns)
        /\ StrAccessorFails(frame, cols[i])

\* The mapping passed to rename (lines 60-65): every name to itself.
RenameMap == [c \in Range(AllColumns) |-> c]

NewName(map, c) == IF c \in DOMAIN map THEN map[c] ELSE c

\* DataFrame.rename(columns=map, inplace=True).
rename(frame, map) ==
    LET old(c2) == CHOOSE c \in Range(frame.columns) : NewName(map, c) = c2
        new == [j \in 1..Len(frame.columns) |-> NewName(map, frame.columns[j])]
    IN  [columns |-> new,
         dtypes  |-> [c2 \in Range(new) |-> frame.dtypes[old(c2)]],
         rows    |-> [i \in 1..Len(frame.rows) |->
                        [idx   |-> frame.rows[i].idx,
                         cells |-> [c2 \in Range(new) |->
                                      frame.rows[i].cells[old(c2)]]]]]

\* How to_csv writes a value: NaN as the empty field, a number of a float64
\* column with its fraction, a string as it is.
FormatCell(cell, dtype) ==
    IF cell.k = "nan" THEN <<>>
    ELSE IF cell.k = "str" THEN cell.s
    ELSE IF dtype = "float64" THEN FormatNumber(cell.n) \o <<".", "0">>
    ELSE FormatNumber(cell.n)

\* DataFrame.to_csv(path, index=False): the header, then one line per row in
\* the frame's order, the row labels left out.
to_csv(frame) ==
    [exists |-> TRUE,
     header |-> frame.columns,
     rows   |-> [i \in 1..Len(frame.rows) |->
                   [j \in 1..Len(frame.columns) |->
                      FormatCell(frame.rows[i].cells[frame.columns[j]],
                                 frame.dtypes[frame.columns[j]])]]]

\* ------------------------------------------------------------ files
NoFile == [exists |-> FALSE, header |-> <<>>, rows |-> <<>>]

\* The text written to README.md: the heading of line 117 and the string
\* `summary` of lines 84-110 (its text abbreviated to its first line).
Heading == "# Data Cleaning Task 1 - Assessments Dataset\n\n"

summary == "\nData Cleaning Summary for assessments.csv:\n..."

\* What README.md may hold before the run: nothing, or an earlier text.
PriorReadme == {<<>>, <<"stale">>}

\* Variant: open(path, 'a') keeps the file's text.
OpenAppend(text) == text

\* open(path, 'w') truncates the file; each f.write appends to it.
OpenWrite(text) == <<>>

\* ------------------------------------------------------------ inputs
\* The record most rows of the input look like.
BaseRow == <<<<"A">>, <<"J">>, <<"1">>, <<"T">>, <<"1">>, <<"1">>>>

\* The other fields an input file may hold in each column: padded text,
\* blank text, another number, an empty field, text that is no number.
FieldDomain ==
    [code_module       |-> {<<" ", "A">>, <<"A", " ">>},
     code_presentation |-> {<<" ", "J", " ">>},
     id_assessment     |-> {<<"2">>},
     assessment_type   |-> {<<"T", "\t">>, <<" ">>, <<>>},
     date              |-> {<<>>, <<"x">>, <<" ", "1">>},
     weight            |-> {<<>>, <<"x">>, <<"y">>, <<"1", ".", "0">>}]

\* The rows of an input file: the base record, or the base record with one
\* of its fields replaced.
FullRows ==
    {BaseRow} \cup
    {[BaseRow EXCEPT ![j] = f] :
        j \in 1..Len(AllColumns), f \in UNION {FieldDomain[c] : c \in DOMAIN FieldDomain}}

InputRows ==
    {r \in FullRows :
        \A j \in 1..Len(AllColumns) :
            r[j] = BaseRow[j] \/ r[j] \in FieldDomain[AllColumns[j]]}

\* The headers an input file may have: the expected one, or with `date`,
\* with `weight` or with some of the text columns left out (the order of the
\* others kept).
Headers ==
    {SelectSeq(AllColumns, LAMBDA c : c \notin out) :
        out \in {{"date"}, {"weight"}} \cup SUBSET Range(TextColumns)}

RowsOf(header) ==
    {[j \in 1..Len(header) |-> r[ColumnIndex(AllColumns, header[j])]] :
        r \in InputRows}

TablesOf(header) == UNION {[1..n -> RowsOf(header)] : n \in 0..MaxRows}

InputFiles ==
    {NoFile} \cup
    UNION {{[exists |-> TRUE, header |-> h, rows |-> rs] : rs \in TablesOf(h)} :
            h \in Headers}

\* ------------------------------------------------------------ the script
Init ==
    /\ pc = "load"
    /\ assessments \in InputFiles
    /\ df = NoFrame
    /\ df_cleaned = NoFrame
    /\ cleaned_csv = [written |-> "no", file |-> NoFile]
    /\ readme \in {[written |-> "no", text |-> old] : old \in PriorReadme}
    /\ err = ""

Raise(exception) ==
    /\ pc' = "error"
    /\ err' = exception

\* Line 5: df = pd.read_csv('assessments.csv').
Load ==
    /\ pc = "load"
    /\ IF ~assessments.exists
       THEN /\ Raise("FileNotFoundError")
            /\ UNCHANGED df
       ELSE /\ df' = read_csv(assessments)
            /\ pc' = "date"
            /\ UNCHANGED err
    /\ UNCHANGED <<assessments, df_cleaned, cleaned_csv, readme>>

\* Variant: the date step guarded like the text loop, an absent column skipped.
DateNormalizationSkipAbsent ==
    /\ pc = "date"
    /\ df' = IF KeyError(df, "date") THEN df
             ELSE to_numeric(ReplaceEmpty(df, "date"), "date")
    /\ pc' = "dedup"
    /\ UNCHANGED <<assessments, df_cleaned, cleaned_csv, readme, err>>

\* Lines 15-18: the empty strings of `date` become NaN, then the column is
\* converted to numbers. df['date'] raises KeyError without the column.
DateNormalization ==
    /\ pc = "date"
    /\ IF KeyError(df, "date")
       THEN /\ Raise("KeyError")
            /\ UNCHANGED df
       ELSE /\ df' = to_numeric(ReplaceEmpty(df, "date"), "date")
            /\ pc' = "dedup"
            /\ UNCHANGED err
    /\ UNCHANGED <<assessments, df_cleaned, cleaned_csv, readme>>

\* Line 34: df_cleaned = df.drop_duplicates().
RemoveDuplicates ==
    /\ pc = "dedup"
    /\ df_cleaned' = drop_duplicates(df)
    /\ pc' = "text"
    /\ UNCHANGED <<assessments, df, cleaned_csv, readme, err>>

\* Lines 45-48: strip the text columns that are present. (Line 56 reads
\* df_cleaned['date'], which is present once line 15 has passed.)
TextStandardization ==
    /\ pc = "text"
    /\ IF StandardizeFails(df_cleaned, TextColumns)
       THEN /\ Raise("AttributeError")
            /\ UNCHANGED df_cleaned
       ELSE /\ df_cleaned' = Standardize(df_cleaned, TextColumns)
            /\ pc' = "rename"
            /\ UNCHANGED err
    /\ UNCHANGED <<assessments, df, cleaned_csv, readme>>

\* Lines 60-65: df_cleaned.rename(columns={...}, inplace=True).
RenameColumns ==
    /\ pc = "rename"
    /\ df_cleaned' = rename(df_cleaned, RenameMap)
    /\ pc' = "weight"
    /\ UNCHANGED <<assessments, df, cleaned_csv, readme, err>>

\* Line 74: `weight` is converted to numbers; KeyError without the column.
TypeCoercion ==
    /\ pc = "weight"
    /\ IF KeyError(df_cleaned, "weight")
       THEN /\ Raise("KeyError")
            /\ UNCHANGED df_cleaned
       ELSE /\ df_cleaned' = to_numeric(df_cleaned, "weight")
            /\ pc' = "save"
            /\ UNCHANGED err
    /\ UNCHANGED <<assessments, df, cleaned_csv, readme>>

\* Line 80: df_cleaned.to_csv('cleaned_assessments.csv', index=False).
SaveCsv ==
    /\ pc = "save"
    /\ cleaned_csv' = [written |-> "yes", file |-> to_csv(df_cleaned)]
    /\ pc' = "readme"
    /\ UNCHANGED <<assessments, df, df_cleaned, readme, err>>

\* Line 80 failing: the file cannot be opened (it is left as it was), or the
\* write fails after the file was opened and truncated.
SaveCsvFails ==
    /\ pc = "save"
    /\ \/ UNCHANGED cleaned_csv
       \/ cleaned_csv' = [written |-> "partial",
                          file |-> [exists |-> TRUE, header |-> <<>>, rows |-> <<>>]]
    /\ Raise("OSError")
    /\ UNCHANGED <<assessments, df, df_cleaned, readme>>

\* Variant: the README write placed before the CSV write.
WriteReadmeBeforeCsv ==
    /\ pc = "save"
    /\ readme' = [written |-> "yes",
                  text |-> OpenWrite(readme.text) \o <<Heading, summary>>]
    /\ UNCHANGED <<pc, assessments, df, df_cleaned, cleaned_csv, err>>

\* Lines 116-118: the heading and the summary are written to README.md.
WriteReadme ==
    /\ pc = "readme"
    /\ readme' = [written |-> "yes",
                  text |-> OpenWrite(readme.text) \o <<Heading, summary>>]
    /\ pc' = "done"
    /\ UNCHANGED <<assessments, df, df_cleaned, cleaned_csv, err>>

\* Lines 116-118 failing: at open (the file is left as it was), or at a
\* write after the file was opened and truncated.
WriteReadmeFails ==
    /\ pc = "readme"
    /\ \/ UNCHANGED readme
       \/ readme' = [written |-> "partial", text |-> OpenWrite(readme.text)]
       \/ readme' = [written |-> "partial",
                     text |-> OpenWrite(readme.text) \o <<Heading>>]
    /\ Raise("OSError")
    /\ UNCHANGED <<assessments, df, df_cleaned, cleaned_csv>>

Next ==
    \/ Load
    \/ DateNormalization
    \/ RemoveDuplicates
    \/ TextStandardization
    \/ RenameColumns
    \/ TypeCoercion
    \/ SaveCsv
    \/ SaveCsvFails
    \/ WriteReadme
    \/ WriteReadmeFails

Spec == Init /\ [][Next]_vars

\* The whole script as a function of the input file: the file it writes to
\* cleaned_assessments.csv when no statement raises.
RunCompletes(file) ==
    /\ file.exists
    /\ ~KeyError(read_csv(file), "date")
    /\ ~StandardizeFails(read_csv(file), TextColumns)
    /\ ~KeyError(read_csv(file), "weight")

CleanedOutput(file) ==
    LET loaded == read_csv(file)
        dated == to_numeric(ReplaceEmpty(loaded, "date"), "date")
        deduped == drop_duplicates(dated)
        stripped == Standardize(deduped, TextColumns)
        renamed == rename(stripped, RenameMap)
    IN  to_csv(to_numeric(renamed, "weight"))

\* ------------------------------------------------------------ claims
Terminal == pc \in {"done", "error"}

Written == cleaned_csv.written = "yes"

OutRows == cleaned_csv.file.rows

OutHeader == cleaned_csv.file.header

Present(col) == col \in Range(assessments.header)

\* The input field of column col in the input row labelled idx.
InField(idx, col) ==
    assessments.rows[idx + 1][ColumnIndex(assessments.header, col)]

\* The output field of column col in the k-th output row.
OutField(k, col) == OutRows[k][ColumnIndex(OutHeader, col)]

\* The text-standardization loop has run to its end.
Standardized ==
    \/ pc \in {"rename", "weight", "save", "readme", "done"}
    \/ pc = "error" /\ err = "OSError"
    \/ pc = "error" /\ err = "KeyError" /\ Present("date")

\* All cleaning steps have run.
Cleaned ==
    \/ pc \in {"save", "readme", "done"}
    \/ pc = "error" /\ err = "OSError"

\* The script's lines agree with the script as a function.
ScriptIsCleanedOutput ==
    Written => RunCompletes(assessments) /\ cleaned_csv.file = CleanedOutput(assessments)

\* C1: the table written to cleaned_assessments.csv has no two rows that are
\* equal in every column.
C1_NoDuplicateRowsInOutput ==
    Written => \A i, j \in 1..Len(OutRows) : i # j => OutRows[i] # OutRows[j]

\* C2: running the script a second time, on its own output file, completes and
\* writes a file identical to that output.
C2_RerunIsIdentity ==
    pc = "done" =>
        /\ RunCompletes(cleaned_csv.file)
        /\ CleanedOutput(cleaned_csv.file) = cleaned_csv.file

\* C3 (as stated): every run ends with both output files written or with
\* neither written.
C3_AllOrNothing ==
    Terminal =>
        \/ cleaned_csv.written = "yes" /\ readme.written = "yes"
        \/ cleaned_csv.written = "no" /\ readme.written = "no"

\* C3 (amended): README.md is touched only after cleaned_assessments.csv was
\* written in full; a run that ends without error has written both files; a
\* run that fails before the CSV write has touched neither file; a run ends
\* with both files written, with neither touched, or with the CSV touched and
\* README.md not written in full.
C3_CsvThenReadme ==
    /\ readme.written # "no" => cleaned_csv.written = "yes"
    /\ pc = "done" => cleaned_csv.written = "yes" /\ readme.written = "yes"
    /\ pc = "error" => readme.written # "yes"
    /\ pc = "error" /\ err # "OSError" =>
            /\ cleaned_csv = [written |-> "no", file |-> NoFile]
            /\ readme.written = "no" /\ readme.text \in PriorReadme
    /\ cleaned_csv.written = "no" => cleaned_csv.file = NoFile
    /\ readme.written = "no" => readme.text \in PriorReadme

\* C3 witness: a run that failed at README.md after the CSV was written.
C3_OnlyCsvWritten ==
    pc = "error" /\ cleaned_csv.written = "yes" /\ readme.written # "yes"

\* The rows of the date-normalized table that no earlier row equals.
FirstOccurrences ==
    {i \in 1..Len(df.rows) :
        \A j \in 1..(i - 1) : df.rows[j].cells # df.rows[i].cells}

\* C4: drop_duplicates keeps exactly the first row of every group of rows that
\* are equal in every column after the date normalization, the kept rows stay
\* in the order of the input, and no later step reorders or removes rows: the
\* k-th line written is the k-th kept row.
C4_FirstOccurrencesInOrder ==
    pc \in {"text", "rename", "weight", "save", "readme", "done"} =>
        /\ \A k \in 1..(Len(df_cleaned.rows) - 1) :
                df_cleaned.rows[k].idx < df_cleaned.rows[k + 1].idx
        /\ {df_cleaned.rows[k].idx + 1 : k \in 1..Len(df_cleaned.rows)}
                = FirstOccurrences
        /\ Written =>
                /\ Len(OutRows) = Cardinality(FirstOccurrences)
                /\ \A k \in 1..Len(OutRows) :
                        OutField(k, "id_assessment")
                            = InField(df_cleaned.rows[k].idx, "id_assessment")

\* C4 witness: a later copy of a row was removed and the rest was written.
C4_DuplicateDropped ==
    /\ pc = "done"
    /\ Len(assessments.rows) >= 2
    /\ assessments.rows[1] # assessments.rows[2]
    /\ df.rows[1].cells = df.rows[2].cells
    /\ Len(OutRows) = Len(assessments.rows) - 1
    /\ df_cleaned.rows[1].idx = 0

\* The k-th line holds, in column col, the number of its input field, or
\* nothing when the input field is no number.
NumericOrNull(k, col) ==
    LET in == InField(df_cleaned.rows[k].idx, col)
        out == OutField(k, col)
    IN  IF IsNumeric(in)
        THEN IsNumeric(out) /\ NumericValue(out) = NumericValue(in)
        ELSE out = <<>>

\* C5: every `date` and `weight` field written is a number or empty (null): a
\* field of the input that is a number is written as that number, any other
\* field is written as null, and the run goes on.
C5_DateAndWeightNumericOrNull ==
    /\ Written =>
        \A k \in 1..Len(OutRows) :
            /\ NumericOrNull(k, "date")
            /\ NumericOrNull(k, "weight")
    /\ Cleaned =>
        \A k \in 1..Len(df_cleaned.rows) :
            /\ df_cleaned.rows[k].cells["date"].k \in {"num", "nan"}
            /\ df_cleaned.rows[k].cells["weight"].k \in {"num", "nan"}

\* C5 witness: a date and a weight that are no numbers were written as null.
C5_UnparsableBecameNull ==
    /\ pc = "done"
    /\ \E k \in 1..Len(OutRows) :
        /\ InField(df_cleaned.rows[k].idx, "date") = <<"x">>
        /\ OutField(k, "date") = <<>>
    /\ \E k \in 1..Len(OutRows) :
        /\ InField(df_cleaned.rows[k].idx, "weight") = <<"x">>
        /\ OutField(k, "weight") = <<>>

\* A text without leading or trailing whitespace.
NoOuterSpace(f) == f = <<>> \/ (~IsSpace(f[1]) /\ ~IsSpace(f[Len(f)]))

\* C6: no field written in code_module, code_presentation or assessment_type
\* starts or ends with whitespace.
C6_TextColumnsTrimmed ==
    /\ Written =>
        \A k \in 1..Len(OutRows) : \A i \in 1..Len(TextColumns) :
            TextColumns[i] \in Range(OutHeader) =>
                NoOuterSpace(OutField(k, TextColumns[i]))
    /\ Standardized =>
        \A k \in 1..Len(df_cleaned.rows) : \A i \in 1..Len(TextColumns) :
            TextColumns[i] \in Range(df_cleaned.columns) =>
                LET cell == df_cleaned.rows[k].cells[TextColumns[i]]
                IN  cell.k = "str" => NoOuterSpace(cell.s)

\* C6 witness: padded fields of the input were written trimmed.
C6_PaddedFieldTrimmed ==
    /\ pc = "done"
    /\ Present("code_module") /\ Present("code_presentation")
    /\ \E k \in 1..Len(OutRows) :
        /\ InField(df_cleaned.rows[k].idx, "code_module") = <<"A", " ">>
        /\ OutField(k, "code_module") = <<"A">>
    /\ \E k \in 1..Len(OutRows) :
        /\ InField(df_cleaned.rows[k].idx, "code_presentation") = <<" ", "J", " ">>
        /\ OutField(k, "code_presentation") = <<"J">>

\* C7: when the input header has no `date` column, the run gets no further than
\* the first access to `date`, where it ends with KeyError, and neither output
\* file is touched.
C7_MissingDateAborts ==
    assessments.exists /\ ~Present("date") =>
        /\ pc \in {"load", "date", "error"}
        /\ pc = "error" => err = "KeyError"
        /\ df_cleaned = NoFrame
        /\ cleaned_csv = [written |-> "no", file |-> NoFile]
        /\ readme.written = "no" /\ readme.text \in PriorReadme

\* C7 witness: a run on a table without `date` ended with KeyError.
C7_AbortedWithoutDate ==
    /\ assessments.exists /\ ~Present("date")
    /\ Len(assessments.rows) > 0
    /\ pc = "error" /\ err = "KeyError"

\* The input has `date` and `weight` and lacks a text column.
TextColumnAbsent ==
    /\ assessments.exists
    /\ Present("date") /\ Present("weight")
    /\ \E i \in 1..Len(TextColumns) : ~Present(TextColumns[i])

C9_StaticReport ==
    readme.written = "yes" => readme.text = <<Heading, summary>>

\* C9 witness: the report was written after a run that dropped a duplicate
\* and wrote a null date.
C9_ReportAfterDuplicatesAndNulls ==
    /\ pc = "done"
    /\ readme.written = "yes"
    /\ Len(OutRows) < Len(assessments.rows)
    /\ \E k \in 1..Len(OutRows) : OutField(k, "date") = <<>>

\* clean(r), cell by cell: date and weight as numbers or NaN, text trimmed.
CleanCell(col, cell) ==
    IF col \in {"date", "weight"}
    THEN IF cell.k = "str" /\ IsNumeric(cell.s) THEN Num(NumericValue(cell.s))
         ELSE IF cell.k = "num" THEN cell ELSE NaN
    ELSE IF col \in Range(TextColumns) /\ cell.k = "str" THEN Str(Strip(cell.s))
    ELSE cell

CleanRow(cells) == [c \in DOMAIN cells |-> CleanCell(c, cells[c])]

\* C10: writing clean(r) for a row with its date normalized, its text columns
\* trimmed and its weight coerced: every row of the cleaned table is clean(r)
\* of the input row with its label, every input row r has a cleaned row equal
\* to clean(r), there are at most as many rows as in the input, and the
\* columns and their order are those of the input; the file written has the
\* same header and one line per cleaned row.
C10_NoRowInventedOrLost ==
    Cleaned =>
        LET in == read_csv(assessments).rows
            out == df_cleaned.rows
        IN  /\ \A k \in 1..Len(out) :
                /\ out[k].idx + 1 \in 1..Len(in)
                /\ out[k].cells = CleanRow(in[out[k].idx + 1].cells)
            /\ \A i \in 1..Len(in) :
                \E k \in 1..Len(out) : out[k].cells = CleanRow(in[i].cells)
            /\ Len(out) <= Len(in)
            /\ df_cleaned.columns = assessments.header
            /\ Written => /\ OutHeader = assessments.header
                          /\ Len(OutRows) = Len(out)

\* C10 witness: a run on distinct records wrote all of them.
C10_DistinctRecordsKept ==
    /\ pc = "done"
    /\ Len(assessments.rows) >= 2
    /\ Len(OutRows) = Len(assessments.rows)
    /\ \E k \in 1..Len(OutRows) : OutField(k, "id_assessment") = <<"2">>
    /\ \E k \in 1..Len(OutRows) :
            InField(df_cleaned.rows[k].idx, "weight") = <<"y">>
====
